---------------------------- MODULE Spec2Model ----------------------------
(***************************************************************************)
(* A model of the rust-db service of forgettable: a project-scoped binary  *)
(* key-value store over HTTP, backed by PostgreSQL.                        *)
(*                                                                         *)
(* The state is the two tables (projects, entries), per request handler    *)
(* the store_entry request that has run its first statement and not yet    *)
(* its second, and the response on its way to the caller.  Every SQL       *)
(* statement is one atomic step; handlers interleave at statement          *)
(* boundaries (the .await points).                                         *)
(*                                                                         *)
(* Five specifications: Spec (concurrent handlers on one key per project), *)
(* SpecList (one caller, keys and prefixes with LIKE metacharacters),      *)
(* SpecRoute (requests through the router), SpecMime (the Content-Type     *)
(* header) and SpecRace (stores and deletes of one key, with the answers   *)
(* received as history).                                                   *)
(*                                                                         *)
(* Strings are sequences of code points; bodies are sequences of bytes.    *)
(***************************************************************************)
EXTENDS Integers, Sequences, FiniteSets, TLC

\* ------------------------------------------------------------------ bounds

\* Concurrent request handlers (axum runs one task per request).
NumHandlers == 2
\* Project identifiers a caller or the database can produce (UUIDs).
NumProjects == 2
\* Most rows the entries table holds in the listing specification.
MaxRows == 2

Handlers == 1 .. NumHandlers
ProjectIds == 1 .. NumProjects

\* ------------------------------------------------------------- characters

Percent == 37
Backslash == 92
Underscore == 95
\* Two ordinary characters, 'a' and 'b'.
Letters == <<97, 98>>
LetterA == Letters[1]
LetterB == Letters[2]

\* The characters of the listing specification's keys and prefixes: the two
\* LIKE wildcards, the LIKE escape character and an ordinary character.
Alphabet == {Percent, Backslash, Underscore, LetterA}

RECURSIVE StringsUpTo(_, _)
\* All strings over `chars` of length 0 .. n.
StringsUpTo(chars, n) ==
    IF n = 0 THEN {<<>>}
    ELSE LET shorter == StringsUpTo(chars, n - 1)
         IN  shorter \cup {Append(s, c) : s \in shorter, c \in chars}

\* Keys of the concurrent specification: "a".
Keys == {<<LetterA>>}
\* Prefixes of the concurrent specification: "a", "b".
Prefixes == {<<LetterA>>, <<LetterB>>}
\* Keys of the listing specification: the strings of one and of two
\* characters (the route's {*key} matches no empty key).
MetaKeys == StringsUpTo(Alphabet, 2) \ {<<>>}
\* Prefixes of the listing specification: likewise ({*prefix} matches no
\* empty prefix; the empty one is list_entries_all's route).
MetaPrefixes == StringsUpTo(Alphabet, 2) \ {<<>>}

\* ---------------------------------------------------------- request inputs

\* The Content-Type header of a store request: absent, a value that is
\* visible ASCII, or a value HeaderValue::to_str rejects.
NoHeader == "<absent>"
OpaqueHeader == "<not visible ascii>"
DefaultMime == "application/octet-stream"

\* (Content-Type, body) pairs a store request carries.  The bodies are the
\* zero-length body and a body of one null byte.
StoreInputs ==
    { [content_type |-> "text/plain", body |-> <<>>],
      [content_type |-> "image/png", body |-> <<0>>] }

\* store_entry's mime_type: the header when present and to_str succeeds,
\* application/octet-stream otherwise.
MimeType(content_type) ==
    IF content_type = NoHeader \/ content_type = OpaqueHeader
    THEN DefaultMime
    ELSE content_type

\* ------------------------------------------------------------------ state

VARIABLES
    projects,   \* table projects: the set of ids
    entries,    \* table entries: a set of rows [project_id, key, mime_type, content]
    inflight,   \* per handler: the store_entry request between its two
                \* statements (`registered` is history: whether the first
                \* found the project in the registry)
    response,   \* the request that finished last, with its response on the
                \* way to its caller, or NoRequest
    written,    \* history: the rows the committed upserts and deletes have
                \* left, one per (project, key) at most
    delivered   \* history: the answers the callers of the race specification
                \* have received, in the order the handlers returned them

vars == <<projects, entries, inflight, response, written, delivered>>

NoRequest == [op |-> "none"]

\* A row of the entries table.
Row(project, key, mime_type, content) ==
    [project_id |-> project, key |-> key,
     mime_type |-> mime_type, content |-> content]

\* -------------------------------------------------------------- responses

\* Mutant: every AppError -> 500.
IntoResponse_AllServerError(err) ==
    [status |-> "INTERNAL_SERVER_ERROR", body |-> err]

\* AppError::into_response: Database -> 500, KeyNotFound -> 404.
IntoResponse(err) ==
    CASE err.error = "Database" ->
            [status |-> "INTERNAL_SERVER_ERROR", body |-> err]
      [] err.error = "KeyNotFound" ->
            [status |-> "NOT_FOUND", body |-> err]

\* The `?` on a statement sqlx reports failed: AppError::Database.
DatabaseError == IntoResponse([error |-> "Database"])
KeyNotFound(key) == IntoResponse([error |-> "KeyNotFound", key |-> key])

\* What the statements of an answered request did (history): sqlx returned
\* Err, or they ran; `rows` are the rows of the request's (project, key) the
\* last one found in the table, `registered` whether the first one found the
\* request's project in the registry.
Failed == [ok |-> FALSE, rows |-> {}, registered |-> FALSE]
Ran(rows, registered) == [ok |-> TRUE, rows |-> rows, registered |-> registered]

\* The last statement of a dropped request never reached the database.
Unsent(registered) == [ok |-> FALSE, rows |-> {}, registered |-> registered]

\* A dropped request has no response.
NoResponse == [status |-> "NONE", body |-> <<>>]

\* A finished request: what was asked (op is "dropped" for a request whose
\* handler was dropped), what its statements did and what was returned.
Answer(op, project, key, stmt, resp) ==
    [op |-> op, project |-> project, key |-> key, stmt |-> stmt, resp |-> resp]

\* ------------------------------------------------------------ statements

\* The rows of (project, key).
RowsOf(rows, project, key) ==
    {r \in rows : r.project_id = project /\ r.key = key}

\* Mutant: the statement inserts nothing.
EnsureProject_Nothing(ids, project) == ids

\* Mutant: the statement inserts only into an empty registry.
EnsureProject_FirstOnly(ids, project) == IF ids = {} THEN {project} ELSE ids

\* Mutant: the projects table is rewritten to hold the one id of the store.
EnsureProject_Replaces(ids, project) == {project}


\* INSERT INTO projects (id) VALUES ($1) ON CONFLICT (id) DO NOTHING
EnsureProject(ids, project) == ids \cup {project}

\* Mutant: DO UPDATE SET content only; the row keeps its mime type.
UpsertEntry_KeepsMime(rows, project, key, mime_type, content) ==
    LET old == RowsOf(rows, project, key)
    IN  IF old = {}
        THEN rows \cup {Row(project, key, mime_type, content)}
        ELSE (rows \ old) \cup {[r EXCEPT !.content = content] : r \in old}

\* Mutant: a plain INSERT, with no ON CONFLICT and no unique index.
UpsertEntry_PlainInsert(rows, project, key, mime_type, content) ==
    rows \cup {Row(project, key, mime_type, content)}

\* Mutant: DO UPDATE SET mime_type only; the row keeps its content.
UpsertEntry_KeepsContent(rows, project, key, mime_type, content) ==
    LET old == RowsOf(rows, project, key)
    IN  IF old = {}
        THEN rows \cup {Row(project, key, mime_type, content)}
        ELSE (rows \ old) \cup {[r EXCEPT !.mime_type = mime_type] : r \in old}


\* Mutant: ON CONFLICT (key), a unique index on the key alone: the row of
\* the key is updated in whatever project it is.
UpsertEntry_KeyConflict(rows, project, key, mime_type, content) ==
    LET old == {r \in rows : r.key = key}
    IN  IF old = {}
        THEN rows \cup {Row(project, key, mime_type, content)}
        ELSE (rows \ old) \cup
             {[r EXCEPT !.mime_type = mime_type, !.content = content] : r \in old}


\* INSERT INTO entries ... ON CONFLICT (project_id, key) DO UPDATE SET
\* mime_type = EXCLUDED.mime_type, content = EXCLUDED.content: the row of
\* (project, key) is updated in place when there is one, inserted otherwise.
UpsertEntry(rows, project, key, mime_type, content) ==
    LET old == RowsOf(rows, project, key)
    IN  IF old = {}
        THEN rows \cup {Row(project, key, mime_type, content)}
        ELSE (rows \ old) \cup
             {[r EXCEPT !.mime_type = mime_type, !.content = content] : r \in old}

\* Mutant: DELETE FROM entries WHERE key = $2, in every project.
DeleteRows_AnyProject(rows, project, key) == {r \in rows : r.key # key}

\* DELETE FROM entries WHERE project_id = $1 AND key = $2
DeleteRows(rows, project, key) == rows \ RowsOf(rows, project, key)

\* Mutant: rows_affected() of a DELETE that treats no row as one.
RowsAffected_AtLeastOne(rows, project, key) ==
    IF RowsOf(rows, project, key) = {} THEN 1
    ELSE Cardinality(RowsOf(rows, project, key))


\* rows_affected() of that DELETE.
RowsAffected(rows, project, key) == Cardinality(RowsOf(rows, project, key))

\* Mutant: SELECT ... WHERE key = $2, in every project.
SelectEntry_AnyProject(rows, project, key) ==
    {[mime_type |-> r.mime_type, content |-> r.content] :
        r \in {x \in rows : x.key = key}}

\* SELECT mime_type, content FROM entries WHERE project_id = $1 AND key = $2
SelectEntry(rows, project, key) ==
    {[mime_type |-> r.mime_type, content |-> r.content] :
        r \in RowsOf(rows, project, key)}

\* ------------------------------------------------------ ORDER BY and LIKE

RECURSIVE KeyLess(_, _)
\* The order of ORDER BY key: the column's collation, which the schema sets
\* and src/ does not hold; code point order, as the specification has it.
KeyLess(a, b) ==
    IF a = <<>> THEN b # <<>>
    ELSE IF b = <<>> THEN FALSE
    ELSE IF a[1] # b[1] THEN a[1] < b[1]
    ELSE KeyLess(Tail(a), Tail(b))

RECURSIVE OrderByKey(_)
\* The rows of a SELECT key, mime_type ... ORDER BY key, as the Vec fetch_all
\* returns: the least key first.  Rows of equal key come in either order.
OrderByKey(rows) ==
    IF rows = {} THEN <<>>
    ELSE LET first == CHOOSE r \in rows :
                         \A o \in rows : ~KeyLess(o.key, r.key)
         IN  <<first>> \o OrderByKey(rows \ {first})

\* SELECT key, mime_type: models::KeyInfo.
KeyInfo(r) == [key |-> r.key, mime_type |-> r.mime_type]

RECURSIVE Replace(_, _, _)
\* str::replace(ch, to): every occurrence of ch, left to right.
Replace(s, ch, to) ==
    IF s = <<>> THEN <<>>
    ELSE (IF s[1] = ch THEN to ELSE <<s[1]>>) \o Replace(Tail(s), ch, to)

\* Mutant: the prefix is not escaped.
Pattern_Unescaped(prefix) == Append(prefix, Percent)

\* Mutant: '%' and '_' are escaped first and '\' last, so the escapes just
\* added are escaped in turn.
Pattern_BackslashLast(prefix) ==
    Append(Replace(Replace(Replace(prefix,
                Percent, <<Backslash, Percent>>),
                Underscore, <<Backslash, Underscore>>),
                Backslash, <<Backslash, Backslash>>),
           Percent)


\* list_entries' pattern: the prefix with '\' escaped, then '%', then '_',
\* and a '%' appended.
Pattern(prefix) ==
    Append(Replace(Replace(Replace(prefix,
                Backslash, <<Backslash, Backslash>>),
                Percent, <<Backslash, Percent>>),
                Underscore, <<Backslash, Underscore>>),
           Percent)

RECURSIVE Like(_, _)
\* PostgreSQL's `s LIKE pat` with the default escape character '\': '%'
\* matches any run of characters, '_' any one character, '\' makes the next
\* character match itself.  (A pattern ending in a lone '\' is an error in
\* PostgreSQL; list_entries' patterns end in '%'.)
Like(s, pat) ==
    IF pat = <<>> THEN s = <<>>
    ELSE IF pat[1] = Backslash
    THEN /\ Len(pat) >= 2
         /\ s # <<>>
         /\ s[1] = pat[2]
         /\ Like(Tail(s), Tail(Tail(pat)))
    ELSE IF pat[1] = Percent
    THEN \E i \in 1 .. Len(s) + 1 : Like(SubSeq(s, i, Len(s)), Tail(pat))
    ELSE IF pat[1] = Underscore
    THEN s # <<>> /\ Like(Tail(s), Tail(pat))
    ELSE s # <<>> /\ s[1] = pat[1] /\ Like(Tail(s), Tail(pat))

RECURSIVE Backwards(_)
Backwards(seq) ==
    IF seq = <<>> THEN <<>> ELSE Append(Backwards(Tail(seq)), Head(seq))

\* Mutant: no ORDER BY; the rows come in another order.
SelectAll_Unordered(rows, project) ==
    Backwards(OrderByKey(
        {KeyInfo(r) : r \in {x \in rows : x.project_id = project}}))

\* SELECT key, mime_type FROM entries WHERE project_id = $1 ORDER BY key
SelectAll(rows, project) ==
    OrderByKey({KeyInfo(r) : r \in {x \in rows : x.project_id = project}})

\* SELECT key, mime_type FROM entries
\* WHERE project_id = $1 AND key LIKE $2 ORDER BY key
SelectLike(rows, project, pattern) ==
    OrderByKey({KeyInfo(r) :
        r \in {x \in rows : x.project_id = project /\ Like(x.key, pattern)}})

\* ----------------------------------------------------------------- Init

Init ==
    /\ projects = {}
    /\ entries = {}
    /\ inflight = [h \in Handlers |-> NoRequest]
    /\ response = NoRequest
    /\ written = {}
    /\ delivered = <<>>

\* Handler h is free to take a request.
Idle(h) == inflight[h] = NoRequest
\* No response is on its way.  Every step of a handler waits for this, so
\* that `response` is the response of the latest step; Deliver is always
\* enabled when it is not, so no interleaving of the statements is lost.
Clear == response = NoRequest

\* --------------------------------------------------------------- actions

\* get_entry: the SELECT, fetch_optional; 200 with the row's mime type and
\* content, KeyNotFound when there is no row, 500 when the statement fails.
GetEntry(h, project, key) ==
    /\ Idle(h) /\ Clear
    /\ LET ran == Ran(RowsOf(entries, project, key), project \in projects)
       IN  \/ \E e \in SelectEntry(entries, project, key) :
                response' = Answer("get", project, key, ran,
                                   [status |-> "OK", body |-> e])
           \/ /\ SelectEntry(entries, project, key) = {}
              /\ response' = Answer("get", project, key, ran, KeyNotFound(key))
           \/ response' = Answer("get", project, key, Failed, DatabaseError)
    /\ UNCHANGED <<projects, entries, inflight, written>>
    /\ UNCHANGED delivered

\* Mutant: list_entries_all answers KeyNotFound when it finds no row.
ListEntriesAll_NotFoundWhenEmpty(h, project) ==
    /\ inflight[h] = NoRequest /\ response = NoRequest
    /\ LET found == {r \in entries : r.project_id = project}
       IN  \/ response' = Answer("list_all", project, <<>>,
                                 Ran({}, project \in projects),
                                 IF found = {}
                                 THEN KeyNotFound(<<>>)
                                 ELSE [status |-> "OK",
                                       body |-> OrderByKey(
                                           {KeyInfo(r) : r \in found})])
           \/ response' = Answer("list_all", project, <<>>, Failed,
                                 DatabaseError)
    /\ UNCHANGED <<projects, entries, inflight, written>>
    /\ UNCHANGED delivered

\* list_entries_all: the SELECT; 200 with the rows, 500 when it fails.
ListEntriesAll(h, project) ==
    /\ Idle(h) /\ Clear
    /\ \/ response' = Answer("list_all", project, <<>>,
                             Ran({}, project \in projects),
                             [status |-> "OK",
                              body |-> SelectAll(entries, project)])
       \/ response' = Answer("list_all", project, <<>>, Failed, DatabaseError)
    /\ UNCHANGED <<projects, entries, inflight, written>>
    /\ UNCHANGED delivered

\* list_entries: the pattern, the SELECT; 200 with the rows, 500 when it fails.
ListEntries(h, project, prefix) ==
    /\ Idle(h) /\ Clear
    /\ \/ response' = Answer("list", project, prefix,
                             Ran({}, project \in projects),
                             [status |-> "OK",
                              body |-> SelectLike(entries, project,
                                                  Pattern(prefix))])
       \/ response' = Answer("list", project, prefix, Failed, DatabaseError)
    /\ UNCHANGED <<projects, entries, inflight, written>>
    /\ UNCHANGED delivered

\* store_entry, first statement: the project row is ensured and the request
\* goes on to its upsert, or the statement fails and the handler answers 500.
StoreEnsure(h, project, key, input) ==
    /\ Idle(h) /\ Clear
    /\ \/ /\ projects' = EnsureProject(projects, project)
          /\ inflight' = [inflight EXCEPT ![h] =
                 [op |-> "store", project |-> project, key |-> key,
                  content_type |-> input.content_type,
                  mime_type |-> MimeType(input.content_type),
                  body |-> input.body,
                  registered |-> project \in projects]]
          /\ UNCHANGED response
       \/ /\ response' = Answer("store", project, key, Failed, DatabaseError)
          /\ UNCHANGED <<projects, inflight>>
    /\ UNCHANGED <<entries, written>>
    /\ UNCHANGED delivered

\* Mutant: the error of the upsert is dropped (no ? on its Result) and the
\* handler answers 201 all the same.
StoreUpsert_SwallowsError(h) ==
    /\ ~Idle(h) /\ Clear
    /\ LET q == inflight[h]
       IN  \/ /\ entries' = UpsertEntry(entries, q.project, q.key,
                                        q.mime_type, q.body)
              /\ written' = (written \ RowsOf(written, q.project, q.key))
                                \cup {Row(q.project, q.key, q.mime_type, q.body)}
              /\ response' = Answer("store", q.project, q.key,
                                    Ran(RowsOf(entries, q.project, q.key),
                                        q.registered),
                                    [status |-> "CREATED", body |-> <<>>])
           \/ /\ response' = Answer("store", q.project, q.key, Failed,
                                    [status |-> "CREATED", body |-> <<>>])
              /\ UNCHANGED <<entries, written>>
    /\ inflight' = [inflight EXCEPT ![h] = NoRequest]
    /\ UNCHANGED projects
    /\ UNCHANGED delivered


\* Mutant: the upsert's failure comes after its row was written.
StoreUpsert_WritesThenFails(h) ==
    /\ ~Idle(h) /\ Clear
    /\ LET q == inflight[h]
       IN  \/ /\ entries' = UpsertEntry(entries, q.project, q.key,
                                        q.mime_type, q.body)
              /\ written' = (written \ RowsOf(written, q.project, q.key))
                                \cup {Row(q.project, q.key, q.mime_type, q.body)}
              /\ response' = Answer("store", q.project, q.key,
                                    Ran(RowsOf(entries, q.project, q.key),
                                        q.registered),
                                    [status |-> "CREATED", body |-> <<>>])
           \/ /\ entries' = UpsertEntry(entries, q.project, q.key,
                                        q.mime_type, q.body)
              /\ response' = Answer("store", q.project, q.key, Failed,
                                    DatabaseError)
              /\ UNCHANGED written
    /\ inflight' = [inflight EXCEPT ![h] = NoRequest]
    /\ UNCHANGED projects
    /\ UNCHANGED delivered


\* store_entry, second statement: the upsert, then 201; or the statement
\* fails and the handler answers 500.
StoreUpsert(h) ==
    /\ ~Idle(h) /\ Clear
    /\ LET q == inflight[h]
       IN  \/ /\ entries' = UpsertEntry(entries, q.project, q.key,
                                        q.mime_type, q.body)
              /\ written' = (written \ RowsOf(written, q.project, q.key))
                                \cup {Row(q.project, q.key, q.mime_type, q.body)}
              /\ response' = Answer("store", q.project, q.key,
                                    Ran(RowsOf(entries, q.project, q.key),
                                        q.registered),
                                    [status |-> "CREATED", body |-> <<>>])
           \/ /\ response' = Answer("store", q.project, q.key, Failed,
                                    DatabaseError)
              /\ UNCHANGED <<entries, written>>
    /\ inflight' = [inflight EXCEPT ![h] = NoRequest]
    /\ UNCHANGED projects
    /\ UNCHANGED delivered

\* Mutant: a store dropped while its upsert runs leaves the row half
\* written, the mime type replaced and the content not.
StoreAbandon_HalfWritten(h) ==
    /\ ~Idle(h) /\ Clear
    /\ LET q == inflight[h]
       IN  /\ entries' = UpsertEntry_KeepsContent(entries, q.project, q.key,
                                                  q.mime_type, q.body)
           /\ response' = Answer("dropped", q.project, q.key,
                                 Unsent(q.registered), NoResponse)
    /\ inflight' = [inflight EXCEPT ![h] = NoRequest]
    /\ UNCHANGED <<projects, written>>
    /\ UNCHANGED delivered


\* store_entry dropped after its first statement (the caller went away and
\* the handler's future was dropped at the upsert's .await): there is no
\* response.  The future is dropped before the upsert reaches the database,
\* which then never runs it, or after, and the database runs it whole.
StoreAbandon(h) ==
    /\ ~Idle(h) /\ Clear
    /\ LET q == inflight[h]
       IN  \/ /\ response' = Answer("dropped", q.project, q.key,
                                    Unsent(q.registered), NoResponse)
              /\ UNCHANGED <<entries, written>>
           \/ /\ entries' = UpsertEntry(entries, q.project, q.key,
                                        q.mime_type, q.body)
              /\ written' = (written \ RowsOf(written, q.project, q.key))
                                \cup {Row(q.project, q.key, q.mime_type, q.body)}
              /\ response' = Answer("dropped", q.project, q.key,
                                    Ran(RowsOf(entries, q.project, q.key),
                                        q.registered),
                                    NoResponse)
    /\ inflight' = [inflight EXCEPT ![h] = NoRequest]
    /\ UNCHANGED projects
    /\ UNCHANGED delivered

\* delete_entry: the DELETE; KeyNotFound when no row was affected, else 204;
\* 500 when the statement fails.
DeleteEntry(h, project, key) ==
    /\ Idle(h) /\ Clear
    /\ LET ran == Ran(RowsOf(entries, project, key), project \in projects)
       IN  \/ /\ RowsAffected(entries, project, key) = 0
              /\ entries' = DeleteRows(entries, project, key)
              /\ UNCHANGED written
              /\ response' = Answer("delete", project, key, ran,
                                    KeyNotFound(key))
           \/ /\ RowsAffected(entries, project, key) # 0
              /\ entries' = DeleteRows(entries, project, key)
              /\ written' = written \ RowsOf(written, project, key)
              /\ response' = Answer("delete", project, key, ran,
                                    [status |-> "NO_CONTENT", body |-> <<>>])
           \/ /\ response' = Answer("delete", project, key, Failed,
                                    DatabaseError)
              /\ UNCHANGED <<entries, written>>
    /\ UNCHANGED <<projects, inflight>>
    /\ UNCHANGED delivered

\* create_project: INSERT INTO projects DEFAULT VALUES RETURNING id.  The
\* default is an id the table does not hold (the primary key rejects any
\* other); 200 with the id, 500 when the statement fails.
CreateProject(h) ==
    /\ Idle(h) /\ Clear
    /\ \/ \E id \in ProjectIds \ projects :
            /\ projects' = projects \cup {id}
            /\ response' = Answer("create", id, <<>>, Ran({}, FALSE),
                                  [status |-> "OK", body |-> [id |-> id]])
       \/ /\ response' = Answer("create", 0, <<>>, Failed, DatabaseError)
          /\ UNCHANGED projects
    /\ UNCHANGED <<entries, inflight, written>>
    /\ UNCHANGED delivered

\* The response reaches its caller (a dropped request is over).
Deliver ==
    /\ ~Clear
    /\ response' = NoRequest
    /\ UNCHANGED <<projects, entries, inflight, written>>
    /\ UNCHANGED delivered

\* --------------------------------------------------------- specifications

\* The service: every handler, every operation, over the keys of Keys.
Next ==
    \/ \E h \in Handlers :
        \/ \E p \in ProjectIds, k \in Keys : GetEntry(h, p, k)
        \/ \E p \in ProjectIds : ListEntriesAll(h, p)
        \/ \E p \in ProjectIds, x \in Prefixes : ListEntries(h, p, x)
        \/ \E p \in ProjectIds, k \in Keys, i \in StoreInputs :
               StoreEnsure(h, p, k, i)
        \/ StoreUpsert(h)
        \/ StoreAbandon(h)
        \/ \E p \in ProjectIds, k \in Keys : DeleteEntry(h, p, k)
        \/ CreateProject(h)
    \/ Deliver

Spec == Init /\ [][Next]_vars

\* The projects of the listing specification.
ListProjects == {1, 2}

\* The keys of a project in the listing specification: every string of the
\* LIKE alphabet under the first project, those of Keys under the second.
ListKeys(project) == IF project = 1 THEN MetaKeys ELSE Keys

\* The listing specification's store inputs: one under the first project,
\* those of StoreInputs under the second.
ListInputs(project) ==
    IF project = 1
    THEN {[content_type |-> "text/plain", body |-> <<>>]}
    ELSE StoreInputs

\* The table has room for a row of (project, key), or holds one.
Room(project, key) ==
    \/ Cardinality(entries) < MaxRows
    \/ RowsOf(entries, project, key) # {}

\* One caller at a time, over the keys and prefixes of the LIKE alphabet,
\* in a table of at most MaxRows rows.
NextList ==
    \/ \E p \in ListProjects : \E k \in ListKeys(p) : GetEntry(1, p, k)
    \/ \E p \in ListProjects : ListEntriesAll(1, p)
    \/ \E p \in ListProjects, x \in MetaPrefixes : ListEntries(1, p, x)
    \/ \E p \in ListProjects : \E k \in ListKeys(p), i \in ListInputs(p) :
           Room(p, k) /\ StoreEnsure(1, p, k, i)
    \/ StoreUpsert(1)
    \/ \E p \in ListProjects : \E k \in ListKeys(p) : DeleteEntry(1, p, k)
    \/ Deliver

SpecList == Init /\ [][NextList]_vars

\* ------------------------------------------------------------- properties

\* The (mime type, content) the committed writes have left at (project, key).
WrittenAt(project, key) ==
    {[mime_type |-> w.mime_type, content |-> w.content] :
        w \in RowsOf(written, project, key)}

\* The request just answered is an `op` whose statement ran.
Answered(op) == response.op = op /\ response.stmt.ok

\* C1: round trip.  A get_entry whose SELECT runs, for a (project, key) whose
\* last committed write is a store of (M, C), answers 200 with exactly
\* mime type M and content C, the zero-length content included.
C1_RoundTrip ==
    Answered("get") =>
        \A w \in WrittenAt(response.project, response.key) :
            response.resp = [status |-> "OK", body |-> w]

\* C1's case: a get answered with a stored zero-length content.
C1_Witness ==
    /\ Answered("get")
    /\ response.resp.status = "OK"
    /\ response.resp.body.content = <<>>
    /\ WrittenAt(response.project, response.key) # {}

\* C2: last write wins, with full replacement.  When a store's upsert finds a
\* row of its (project, key) and is answered 201, the table then holds for
\* the pair exactly one row, with the mime type and the content of this
\* store, and that is what a get selects.
C2_LastWriteWins ==
    (Answered("store") /\ response.stmt.rows # {}) =>
        /\ response.resp.status = "CREATED"
        /\ Cardinality(RowsOf(entries, response.project, response.key)) = 1
        /\ Cardinality(WrittenAt(response.project, response.key)) = 1
        /\ SelectEntry(entries, response.project, response.key)
               = WrittenAt(response.project, response.key)

\* C2's case: a store that replaced a row of another mime type and another
\* content.
C2_Witness ==
    /\ Answered("store")
    /\ \E old \in response.stmt.rows :
           \A w \in WrittenAt(response.project, response.key) :
               old.mime_type # w.mime_type /\ old.content # w.content

\* C3: a get_entry whose SELECT runs answers 404 KeyNotFound exactly when the
\* committed writes have left no entry at its (project, key), and 200
\* otherwise; one whose SELECT fails answers 500, which is never the 404.
C3_NotFoundIffAbsent ==
    response.op = "get" =>
        /\ response.stmt.ok =>
              /\ response.resp.status \in {"OK", "NOT_FOUND"}
              /\ response.resp.status = "NOT_FOUND"
                    <=> WrittenAt(response.project, response.key) = {}
              /\ response.resp.status = "NOT_FOUND"
                    => response.resp.body.error = "KeyNotFound"
        /\ ~response.stmt.ok =>
              /\ response.resp.status = "INTERNAL_SERVER_ERROR"
              /\ response.resp.body.error = "Database"

\* C3's case: a get answered 404 for a key never written (its project is
\* not registered, and every store registers its project), while the other
\* project holds an entry under the same key.
C3_Witness ==
    /\ Answered("get")
    /\ response.resp.status = "NOT_FOUND"
    /\ ~response.stmt.registered
    /\ \E r \in entries : r.key = response.key

\* C4: a delete_entry whose DELETE runs answers 204 when the committed writes
\* have left an entry at its (project, key), and the entry is then absent;
\* it answers 404 KeyNotFound when they have left none, and then neither
\* table has changed.
C4_Delete ==
    [][(response.op = "none" /\ response'.op = "delete" /\ response'.stmt.ok) =>
          LET p == response'.project
              k == response'.key
          IN  /\ RowsOf(entries', p, k) = {}
              /\ WrittenAt(p, k) # {} => response'.resp.status = "NO_CONTENT"
              /\ WrittenAt(p, k) = {} =>
                    /\ response'.resp = KeyNotFound(k)
                    /\ entries' = entries
                    /\ projects' = projects]_vars

\* C4's case: a delete of a present entry, answered 204.
C4_Witness ==
    /\ Answered("delete")
    /\ response.resp.status = "NO_CONTENT"
    /\ response.stmt.rows # {}
    /\ WrittenAt(response.project, response.key) = {}

\* C4's other case: a delete under a project that was never registered,
\* answered 404, while the other project holds an entry under the same key.
C4_WitnessUnregistered ==
    /\ Answered("delete")
    /\ response.resp.status = "NOT_FOUND"
    /\ ~response.stmt.registered
    /\ \E r \in entries : r.key = response.key

\* key starts with prefix, character for character.
StartsWith(key, prefix) ==
    /\ Len(prefix) <= Len(key)
    /\ \A i \in 1 .. Len(prefix) : key[i] = prefix[i]

\* The keys of a listing response.
ListedKeys(body) == {body[i].key : i \in DOMAIN body}

\* C5: a list_entries whose SELECT runs answers 200 with exactly the entries
\* of its project whose key starts with its prefix character for character,
\* each once, whatever '%', '_' and '\' the prefix holds.
C5_PrefixLiteral ==
    Answered("list") =>
        LET matching == {r \in entries :
                            /\ r.project_id = response.project
                            /\ StartsWith(r.key, response.key)}
        IN  /\ response.resp.status = "OK"
            /\ ListedKeys(response.resp.body) = {r.key : r \in matching}
            /\ Len(response.resp.body) = Cardinality(matching)

\* C5's case: a list_entries by a prefix that, taken as a LIKE pattern, would
\* match an entry of the project whose key does not start with it, answered
\* without that entry and with one whose key does start with it.
C5_Witness ==
    /\ Answered("list")
    /\ response.resp.body # <<>>
    /\ \E r \in entries :
           /\ r.project_id = response.project
           /\ Like(r.key, Append(response.key, Percent))
           /\ ~StartsWith(r.key, response.key)
           /\ r.key \notin ListedKeys(response.resp.body)

\* a comes before b in code point order (the order of the UTF-8 bytes).
CodepointLess(a, b) ==
    \E i \in 1 .. Len(a) + 1 :
        /\ i <= Len(b)
        /\ \A j \in 1 .. i - 1 : a[j] = b[j]
        /\ i <= Len(a) => a[i] < b[i]

\* A listing response's keys ascend strictly.
Ascending(body) ==
    \A i, j \in DOMAIN body : i < j => CodepointLess(body[i].key, body[j].key)

\* C6: a list_entries_all whose SELECT runs answers 200 with every entry of
\* its project and nothing else, each once, as (key, mime_type) pairs
\* without the content, in ascending code point order of the keys;
\* list_entries answers in the same order.
C6_ListAll ==
    /\ Answered("list_all") =>
          LET mine == {r \in entries : r.project_id = response.project}
              body == response.resp.body
          IN  /\ response.resp.status = "OK"
              /\ {body[i] : i \in DOMAIN body} = {KeyInfo(r) : r \in mine}
              /\ Len(body) = Cardinality(mine)
              /\ \A i \in DOMAIN body : DOMAIN body[i] = {"key", "mime_type"}
              /\ Ascending(body)
    /\ Answered("list") => Ascending(response.resp.body)

\* C6's case: a list_entries_all of a project of two entries or more, one
\* of them under a key that starts with a LIKE wildcard.
C6_Witness ==
    /\ Answered("list_all")
    /\ Len(response.resp.body) >= 2
    /\ \E i \in DOMAIN response.resp.body :
           response.resp.body[i].key[1] \in {Percent, Underscore}

\* C6's other case: a list_entries_all of a project with an entry, while
\* the other project holds an entry too.
C6_WitnessOtherProject ==
    /\ Answered("list_all")
    /\ response.resp.body # <<>>
    /\ \E r \in entries : r.project_id # response.project

\* C7: list_entries_all and list_entries never answer 404; when the SELECT
\* runs they answer 200, with the empty sequence when the project has no
\* entry, when it was never registered and when no key starts with the
\* prefix.
C7_ListNeverNotFound ==
    response.op \in {"list_all", "list"} =>
        /\ response.resp.status # "NOT_FOUND"
        /\ response.stmt.ok =>
              /\ response.resp.status = "OK"
              /\ (\A r \in entries :
                      r.project_id = response.project =>
                          ~StartsWith(r.key, response.key))
                    => response.resp.body = <<>>
              /\ ~response.stmt.registered => response.resp.body = <<>>

\* C7's case: a list_entries_all of a project never registered, answered 200
\* with the empty sequence.
C7_Witness ==
    /\ Answered("list_all")
    /\ ~response.stmt.registered
    /\ response.resp = [status |-> "OK", body |-> <<>>]

\* C7's other cases: a registered project with no entry, and a prefix no key
\* of the project starts with.
C7_WitnessEmptyProject ==
    /\ Answered("list_all")
    /\ response.stmt.registered
    /\ response.resp = [status |-> "OK", body |-> <<>>]

C7_WitnessNoMatch ==
    /\ Answered("list")
    /\ \E r \in entries : r.project_id = response.project
    /\ response.resp = [status |-> "OK", body |-> <<>>]

\* C8: a store_entry answered 201 has its project in the registry, whether
\* or not the registry held it before, and a list_entries_all of the project
\* then returns its key; and the project of every store_entry that has come
\* to its upsert is in the registry.
C8_ImplicitProject ==
    /\ Answered("store") =>
          /\ response.resp.status = "CREATED"
          /\ response.project \in projects
          /\ response.key \in ListedKeys(SelectAll(entries, response.project))
    /\ \A h \in Handlers : ~Idle(h) => inflight[h].project \in projects

\* C8's case: a store_entry answered 201 whose project was not in the
\* registry when the request came (no create_project had returned it and no
\* earlier store had named it).
C8_Witness ==
    /\ Answered("store")
    /\ response.resp.status = "CREATED"
    /\ ~response.stmt.registered

\* C9: referential integrity.  In every reachable state the project of every
\* row of entries is in the registry.
C9_ReferentialIntegrity ==
    \A r \in entries : r.project_id \in projects

\* C9's case: a row just stored under a project that was not in the registry
\* when its request came, while another handler is between its two
\* statements, under the same project.
C9_Witness ==
    /\ Answered("store")
    /\ ~response.stmt.registered
    /\ \E r \in entries : r.project_id = response.project
    /\ \E h \in Handlers :
           ~Idle(h) /\ inflight[h].project = response.project

\* C10: in every reachable state entries holds at most one row per
\* (project, key).
C10_OneRowPerKey ==
    \A r1, r2 \in entries :
        (r1.project_id = r2.project_id /\ r1.key = r2.key) => r1 = r2

\* C10's case: a store that found a row of its (project, key) and replaced
\* it, while another handler's store to the same pair is still to upsert.
C10_Witness ==
    /\ Answered("store")
    /\ response.stmt.rows # {}
    /\ \E h \in Handlers :
           /\ ~Idle(h)
           /\ inflight[h].project = response.project
           /\ inflight[h].key = response.key

\* ------------------------------------------------------------------ C11

\* The (mime type, content) pairs the callers send.
WholeValues ==
    {[mime_type |-> MimeType(i.content_type), content |-> i.body] :
        i \in StoreInputs}

\* The value the row of (project, key) holds.
ValuesAt(rows, project, key) ==
    {[mime_type |-> r.mime_type, content |-> r.content] :
        r \in RowsOf(rows, project, key)}

\* C11: stores of (A, X) and (B, Y) to one (project, key), interleaved in
\* any way: a store whose statements ran is answered 201 Created whether
\* or not the other's row was there, the entry then holds exactly the value
\* of the upsert that committed last, and no entry ever holds the mime type
\* of one store with the content of the other.
C11_NoHalfWrite ==
    /\ \A r \in entries :
          [mime_type |-> r.mime_type, content |-> r.content] \in WholeValues
    /\ Answered("store") =>
          /\ response.resp.status = "CREATED"
          /\ ValuesAt(entries, response.project, response.key)
                = ValuesAt(written, response.project, response.key)
          /\ Cardinality(ValuesAt(entries, response.project, response.key)) = 1

\* Two stores interleaved on one pair: the answered store found the project
\* unregistered at its first statement and, at its second, the row the
\* other store had committed in between, of another mime type and content.
C11_Witness ==
    /\ Answered("store")
    /\ ~response.stmt.registered
    /\ \E old \in response.stmt.rows :
       \E new \in RowsOf(entries, response.project, response.key) :
          /\ old.mime_type # new.mime_type
          /\ old.content # new.content

\* ------------------------------------------------------------------ C12

\* C12: stores that come together for one unregistered project, with the
\* same or different keys: the first statement of each only adds the
\* project's row, changes nothing when the row is already there (and goes
\* on to the upsert all the same), and from then until the store's upsert
\* has run the row is in the projects table, whatever the other handlers
\* do in between.
C12_ConcurrentFirstWrites ==
    [][\A h \in Handlers :
          /\ (Idle(h) /\ ~Idle(h)') =>
                /\ projects' = projects \cup {inflight'[h].project}
                /\ inflight'[h].registered = (inflight'[h].project \in projects)
                /\ inflight'[h].registered => projects' = projects
          /\ ~Idle(h)' => inflight'[h].project \in projects'
          /\ (~Idle(h) /\ Idle(h)') =>
                /\ inflight[h].project \in projects
                /\ projects' = projects]_vars

\* Two stores between their statements for one project: the first found it
\* unregistered and inserted its row, the second found that row.
C12_Witness ==
    \E h1, h2 \in Handlers :
       /\ ~Idle(h1) /\ ~Idle(h2)
       /\ inflight[h1].project = inflight[h2].project
       /\ ~inflight[h1].registered
       /\ inflight[h2].registered

\* ------------------------------------------------------------------ C13

\* The two tables.
Persisted(ids, rows) == [projects |-> ids, entries |-> rows]

\* The tables after one whole operation on the tables s: a create_project,
\* a store_entry with both its statements, or a delete_entry.
WholeOperations(s) ==
    {Persisted(s.projects \cup {id}, s.entries) :
        id \in ProjectIds \ s.projects}
    \cup {Persisted(EnsureProject(s.projects, p),
                    UpsertEntry(s.entries, p, k,
                                MimeType(i.content_type), i.body)) :
             p \in ProjectIds, k \in Keys, i \in StoreInputs}
    \cup {Persisted(s.projects, DeleteRows(s.entries, p, k)) :
             p \in ProjectIds, k \in Keys}

RECURSIVE WholeClosure(_)
\* What sequences of whole operations make of the tables in S.
WholeClosure(S) ==
    LET T == S \cup UNION {WholeOperations(s) : s \in S}
    IN  IF T = S THEN S ELSE WholeClosure(T)

\* The tables that sequences of whole operations make of the empty tables.
WholeStates == WholeClosure({Persisted({}, {})})

\* C13: at every point of every interleaving, between the two statements of
\* a store and after a store was dropped or failed there included, the
\* tables are tables that a sequence of whole operations produces, and a
\* get or a listing returns of an entry what one whole store wrote.
C13_WholeOperationsOnly ==
    /\ Persisted(projects, entries) \in WholeStates
    /\ (Answered("get") /\ response.resp.status = "OK") =>
          response.resp.body \in WholeValues
    /\ (Answered("list_all") \/ Answered("list")) =>
          \A i \in DOMAIN response.resp.body :
             \E v \in WholeValues :
                response.resp.body[i].mime_type = v.mime_type

\* A store was dropped after its first statement registered the project and
\* before its upsert reached the database: the project is registered and
\* no entry was ever committed under it.
C13_Witness ==
    /\ response.op = "dropped"
    /\ ~response.stmt.ok
    /\ ~response.stmt.registered
    /\ response.project \in projects
    /\ \A r \in entries \cup written : r.project # response.project

\* ------------------------------------------------------------------ C14

\* The step answers a request of operation op.
Answers(op) == response = NoRequest /\ response'.op = op

\* C14: no false success.  A store or a delete one of whose statements
\* failed is answered 500; a store is answered 201 only by the step that
\* commits its upsert, after which the entry holds the mime type and the
\* content of the request; a delete is answered 204 only by the step whose
\* DELETE removed the entry.
C14_NoFalseSuccess ==
    [][/\ (Answers("store") \/ Answers("delete")) =>
             /\ ~response'.stmt.ok =>
                   response'.resp.status = "INTERNAL_SERVER_ERROR"
             /\ response'.resp.status \in {"CREATED", "NO_CONTENT"} =>
                   response'.stmt.ok
       /\ (Answers("store") /\ response'.resp.status = "CREATED") =>
             \E h \in Handlers :
                /\ ~Idle(h) /\ Idle(h)'
                /\ inflight[h].project = response'.project
                /\ inflight[h].key = response'.key
                /\ RowsOf(entries', response'.project, response'.key)
                      = {Row(response'.project, response'.key,
                             inflight[h].mime_type, inflight[h].body)}
       /\ (Answers("delete") /\ response'.resp.status = "NO_CONTENT") =>
             /\ RowsOf(entries, response'.project, response'.key) # {}
             /\ RowsOf(entries', response'.project, response'.key) = {}
      ]_vars

\* A delete whose statement failed: the caller is told 500 and the entry
\* is still there.
C14_Witness ==
    /\ response.op = "delete"
    /\ ~response.stmt.ok
    /\ response.resp.status = "INTERNAL_SERVER_ERROR"
    /\ RowsOf(entries, response.project, response.key) # {}

\* A store one of whose statements failed: the caller is told 500 and the
\* entry holds what was there before.
C14_WitnessStore ==
    /\ response.op = "store"
    /\ ~response.stmt.ok
    /\ response.resp.status = "INTERNAL_SERVER_ERROR"
    /\ RowsOf(entries, response.project, response.key) # {}
    /\ RowsOf(entries, response.project, response.key)
          = RowsOf(written, response.project, response.key)

\* ------------------------------------------------------------------ C15

\* The rows of the table other than the row of (project, key).
OtherRows(rows, project, key) == rows \ RowsOf(rows, project, key)

\* The rows of one project.
RowsIn(rows, project) == {r \in rows : r.project_id = project}

\* C15: a store or a delete of (project, key), answered or not, leaves the
\* row of every other key of the project and every row of every other
\* project as it was, and no other step changes a row; what a get or a
\* listing of a project returns is what it returns of the rows of that
\* project alone.
C15_ProjectIsolation ==
    [][/\ \/ entries' = entries
          \/ /\ Answers("store") \/ Answers("delete")
             /\ OtherRows(entries', response'.project, response'.key)
                   = OtherRows(entries, response'.project, response'.key)
       /\ (Answers("get") /\ response'.stmt.ok) =>
             LET found == SelectEntry(RowsIn(entries, response'.project),
                                      response'.project, response'.key)
             IN  IF found = {}
                 THEN response'.resp.status = "NOT_FOUND"
                 ELSE /\ response'.resp.status = "OK"
                      /\ response'.resp.body \in found
       /\ (Answers("list_all") /\ response'.stmt.ok) =>
             response'.resp.body
                = SelectAll(RowsIn(entries, response'.project),
                            response'.project)
       /\ (Answers("list") /\ response'.stmt.ok) =>
             response'.resp.body
                = SelectLike(RowsIn(entries, response'.project),
                             response'.project, Pattern(response'.key))
      ]_vars

\* A store under one project of a key that another project holds with
\* another value: each project has its row of the key and the two differ.
C15_Witness ==
    /\ Answered("store")
    /\ \E mine \in RowsOf(entries, response.project, response.key) :
       \E other \in entries :
          /\ other.project_id # response.project
          /\ other.key = response.key
          /\ other.mime_type # mine.mime_type
          /\ other.content # mine.content

\* ------------------------------------------------------------------ C16

\* "get/" and "list/", the static segments of the routes of get_entry and
\* of the two listings.
GetPrefix == <<103, 101, 116, 47>>
ListPrefix == <<108, 105, 115, 116, 47>>

\* The keys the callers of the routing specification use: a, a/a, get,
\* list, geta, get/a, list/a, list/ and a/get/a.
RouteKeys ==
    LET a == <<LetterA>>
        get == SubSeq(GetPrefix, 1, 3)
        list == SubSeq(ListPrefix, 1, 4)
    IN  {a, a \o <<GetPrefix[4]>> \o a, get, list, get \o a,
         GetPrefix \o a, ListPrefix \o a, ListPrefix,
         a \o <<GetPrefix[4]>> \o GetPrefix \o a}

\* The request is refused by the router: no handler runs.
MethodNotAllowed ==
    [status |-> "METHOD_NOT_ALLOWED", body |-> <<>>]

\* create_router: the handler of a request of the given method for the path
\* /project/{project}/ followed by rest, and the key or prefix it is called
\* with.  The path picks the route, the most specific one that matches (a
\* {*wildcard} matches one character or more), and the route has handlers
\* for its own methods only.
Router(method, rest) ==
    LET route(name, methods, arg) ==
            [handler |-> IF method \in methods THEN name[method]
                         ELSE "method_not_allowed",
             key |-> arg]
        after(prefix) == SubSeq(rest, Len(prefix) + 1, Len(rest))
    IN  IF StartsWith(rest, GetPrefix) /\ Len(rest) > Len(GetPrefix)
        THEN route([GET |-> "get_entry"], {"GET"}, after(GetPrefix))
        ELSE IF rest = ListPrefix
        THEN route([GET |-> "list_entries_all"], {"GET"}, <<>>)
        ELSE IF StartsWith(rest, ListPrefix)
        THEN route([GET |-> "list_entries"], {"GET"}, after(ListPrefix))
        ELSE route([POST |-> "store_entry", DELETE |-> "delete_entry"],
                   {"POST", "DELETE"}, rest)

\* A request of the given method for /project/{project}/rest goes through
\* the router to its handler, which runs as handler 1, or is refused.
Dispatch(method, project, rest, input) ==
    LET to == Router(method, rest)
    IN  CASE to.handler = "get_entry" -> GetEntry(1, project, to.key)
          [] to.handler = "list_entries_all" -> ListEntriesAll(1, project)
          [] to.handler = "list_entries" -> ListEntries(1, project, to.key)
          [] to.handler = "store_entry" ->
                 Room(project, to.key) /\ StoreEnsure(1, project, to.key, input)
          [] to.handler = "delete_entry" -> DeleteEntry(1, project, to.key)
          [] OTHER ->
                 /\ Idle(1) /\ Clear
                 /\ response' = Answer("refused", project, rest, Failed,
                                       MethodNotAllowed)
                 /\ UNCHANGED <<projects, entries, inflight, written,
                                delivered>>

\* The callers' requests for the entry of key k: Store is POST and Delete
\* is DELETE of /project/{project}/k, Get is GET of /project/{project}/get/k.
ClientStore(project, k, input) == Dispatch("POST", project, k, input)
ClientDelete(project, k) == Dispatch("DELETE", project, k, <<>>)
ClientGet(project, k) == Dispatch("GET", project, GetPrefix \o k, <<>>)

\* The listings: GET of /project/{project}/list/ and of
\* /project/{project}/list/prefix.
ClientListAll(project) == Dispatch("GET", project, ListPrefix, <<>>)
ClientList(project, prefix) ==
    Dispatch("GET", project, ListPrefix \o prefix, <<>>)

\* One caller at a time, each request through the router.
NextRoute ==
    \/ \E p \in ProjectIds, k \in RouteKeys, i \in ListInputs(1) :
           ClientStore(p, k, i)
    \/ StoreUpsert(1)
    \/ \E p \in ProjectIds, k \in RouteKeys : ClientDelete(p, k)
    \/ \E p \in ProjectIds, k \in RouteKeys : ClientGet(p, k)
    \/ \E p \in ProjectIds : ClientListAll(p)
    \/ \E p \in ProjectIds, x \in Prefixes : ClientList(p, x)
    \/ Deliver

SpecRoute == Init /\ [][NextRoute]_vars

\* C16: every non-empty key is usable, whatever its leading path segment:
\* the router refuses no Store, Delete or Get of a key, and the request
\* runs its handler with that key.
C16_EveryKeyUsable ==
    /\ response.op # "refused"
    /\ response.op \in {"store", "delete", "get"} => response.key \in RouteKeys

\* ------------------------------------------------------------------ C17

\* The Content-Type headers of the callers of the header specification:
\* none, one that is visible ASCII, and one that is not.
MimeInputs ==
    {[content_type |-> c, body |-> <<>>] :
        c \in {NoHeader, "text/plain", OpaqueHeader}}

\* One caller at a time, with each kind of Content-Type header.
NextMime ==
    \/ \E p \in ProjectIds, k \in Keys, i \in MimeInputs :
           StoreEnsure(1, p, k, i)
    \/ StoreUpsert(1)
    \/ \E p \in ProjectIds, k \in Keys : GetEntry(1, p, k)
    \/ \E p \in ProjectIds, k \in Keys : DeleteEntry(1, p, k)
    \/ Deliver

SpecMime == Init /\ [][NextMime]_vars

\* C17: the mime type a store writes is the Content-Type the caller
\* supplied, verbatim, whenever one is supplied, and application/octet-stream
\* when none is; a get returns the mime type that was stored.
C17_MimeTypeVerbatim ==
    /\ \A h \in Handlers :
          ~Idle(h) =>
             inflight[h].mime_type = IF inflight[h].content_type = NoHeader
                                     THEN DefaultMime
                                     ELSE inflight[h].content_type
    /\ (Answered("get") /\ response.resp.status = "OK") =>
          \E w \in WrittenAt(response.project, response.key) :
             response.resp.body.mime_type = w.mime_type

\* ------------------------------------------------------------------ C18

\* The characters LIKE gives a meaning to.
Metacharacters == {Backslash, Percent, Underscore}

RECURSIVE Tokens(_)
\* A LIKE pattern as LIKE reads it, left to right: '\' and the character
\* after it are one escaped character, an unescaped '%' or '_' is a
\* wildcard, any other character stands for itself.
Tokens(pat) ==
    IF pat = <<>> THEN <<>>
    ELSE IF pat[1] = Backslash /\ Len(pat) >= 2
    THEN <<[kind |-> "escaped", char |-> pat[2]]>>
            \o Tokens(SubSeq(pat, 3, Len(pat)))
    ELSE IF pat[1] = Backslash
    THEN <<[kind |-> "dangling", char |-> pat[1]]>>
    ELSE IF pat[1] \in {Percent, Underscore}
    THEN <<[kind |-> "wildcard", char |-> pat[1]]>> \o Tokens(Tail(pat))
    ELSE <<[kind |-> "plain", char |-> pat[1]]>> \o Tokens(Tail(pat))

\* The number of metacharacters in a string.
Metacount(s) == Cardinality({i \in DOMAIN s : s[i] \in Metacharacters})

\* C18: the pattern list_entries makes of a prefix reads back, character by
\* character, as the prefix: each '\', '%' and '_' of the prefix is in the
\* pattern with exactly one escape added before it, every other character
\* as it is, the one unescaped wildcard is the '%' at the end, and no other
\* prefix has the same pattern; in whatever order the metacharacters come.
C18_EscapeUnambiguous ==
    Answered("list") =>
       LET prefix == response.key
           pat == Pattern(prefix)
           toks == Tokens(pat)
       IN  /\ Len(pat) = Len(prefix) + Metacount(prefix) + 1
           /\ Len(toks) = Len(prefix) + 1
           /\ toks[Len(toks)] = [kind |-> "wildcard", char |-> Percent]
           /\ \A i \in DOMAIN prefix :
                 toks[i] = [kind |-> IF prefix[i] \in Metacharacters
                                     THEN "escaped" ELSE "plain",
                            char |-> prefix[i]]
           /\ \A other \in MetaPrefixes :
                 Pattern(other) = pat => other = prefix

\* A listing by the prefix \% , the escape character before a wildcard
\* character, in a project that holds the key \% : the listing has it.
C18_Witness ==
    /\ Answered("list")
    /\ response.key = <<Backslash, Percent>>
    /\ response.resp.body # <<>>
    /\ \A i \in DOMAIN response.resp.body :
          StartsWith(response.resp.body[i].key, response.key)

\* ------------------------------------------------------------------ C19

\* C19, as the specification has it: a store that is answered 500, or is
\* dropped after its first statement and before its upsert has completed,
\* changes no entry.
C19_AbandonedStoreLeavesEntries ==
    [][/\ (\E h \in Handlers : Idle(h) /\ ~Idle(h)') => entries' = entries
       /\ (Answers("store") /\ response'.resp.status # "CREATED") =>
             entries' = entries
       /\ Answers("dropped") => entries' = entries
      ]_vars

\* C19, amended: a store that is answered 500, or is dropped after its
\* first statement and before its upsert reaches the database, changes no
\* entry: neither its first statement, nor the step that fails, nor the
\* step that drops it creates the entry of its key or changes the one
\* there.  A store dropped while its upsert is with the database has the
\* upsert run whole: the entry of its key holds its mime type and content,
\* and every other entry is as it was.
C19_FailedStoreLeavesEntries ==
    [][/\ (\E h \in Handlers : Idle(h) /\ ~Idle(h)') => entries' = entries
       /\ (Answers("store") /\ response'.resp.status # "CREATED") =>
             entries' = entries
       /\ (Answers("dropped") /\ ~response'.stmt.ok) => entries' = entries
       /\ (Answers("dropped") /\ response'.stmt.ok) =>
             /\ OtherRows(entries', response'.project, response'.key)
                   = OtherRows(entries, response'.project, response'.key)
             /\ \E h \in Handlers :
                   /\ ~Idle(h) /\ Idle(h)'
                   /\ RowsOf(entries', response'.project, response'.key)
                         = {Row(response'.project, response'.key,
                                inflight[h].mime_type, inflight[h].body)}
      ]_vars

\* A store of a key that holds an entry was dropped between its statements:
\* the entry is the one the last committed store wrote.
C19_Witness ==
    /\ response.op = "dropped"
    /\ ~response.stmt.ok
    /\ RowsOf(entries, response.project, response.key) # {}
    /\ RowsOf(entries, response.project, response.key)
          = RowsOf(written, response.project, response.key)

\* A store of a key that holds no entry failed in a project that store
\* itself or an earlier one registered: there is no entry of the key.
C19_WitnessFailed ==
    /\ response.op = "store"
    /\ response.resp.status = "INTERNAL_SERVER_ERROR"
    /\ response.project \in projects
    /\ RowsOf(entries, response.project, response.key) = {}

\* ------------------------------------------------------------------ C20

\* The number of requests of a run of the race specification.
MaxCalls == 3

\* The race specification is about one project.
RaceProjects == {1}

\* What the caller has of an answer: the request, the status and, of a
\* store, the value it sent.
Outcome(answer) ==
    [op |-> answer.op, project |-> answer.project, key |-> answer.key,
     status |-> answer.resp.status,
     value |-> IF answer.op = "store" /\ answer.stmt.ok
               THEN ValuesAt(written, answer.project, answer.key)
               ELSE {}]

\* The requests begun so far.
Calls ==
    Len(delivered) + Cardinality({h \in Handlers : ~Idle(h)})
       + (IF Clear THEN 0 ELSE 1)

\* The caller receives the answer.
Receive ==
    /\ ~Clear
    /\ delivered' = Append(delivered, Outcome(response))
    /\ response' = NoRequest
    /\ UNCHANGED <<projects, entries, inflight, written>>

\* MaxCalls stores and deletes of one (project, key), from any handlers, in
\* any interleaving of the stores' two statements with the deletes.
NextRace ==
    \/ \E h \in Handlers, p \in RaceProjects, k \in Keys, i \in StoreInputs :
           Calls < MaxCalls /\ StoreEnsure(h, p, k, i)
    \/ \E h \in Handlers : StoreUpsert(h)
    \/ \E h \in Handlers, p \in RaceProjects, k \in Keys :
           Calls < MaxCalls /\ DeleteEntry(h, p, k)
    \/ Receive

SpecRace == Init /\ [][NextRace]_vars

\* The answers so far, the one on its way included.
History ==
    IF Clear THEN delivered ELSE Append(delivered, Outcome(response))

\* The statement of the answer ran: the answer is not 500.
Committed(o) == o.status # "INTERNAL_SERVER_ERROR"

\* The value of the entry of (project, key) after the first n answers: that
\* of the last store or delete of the pair that committed; none at first.
RECURSIVE ValueAfter(_, _, _, _)
ValueAfter(H, n, project, key) ==
    IF n = 0 THEN {}
    ELSE IF H[n].project = project /\ H[n].key = key /\ Committed(H[n])
    THEN (IF H[n].op = "store" THEN H[n].value ELSE {})
    ELSE ValueAfter(H, n - 1, project, key)

\* C20: deletes and stores of one (project, key) that run together.  A
\* delete whose statement ran returns 204 when the entry was there after
\* the answers before it and 404 when it was not, so of two deletes of a
\* present entry with no store between them the first returns 204 and the
\* second 404; and the entry is what the last committed of the requests
\* left: absent after a delete, the store's mime type and content after a
\* store.
C20_DeleteRaces ==
    LET H == History
    IN  /\ \A n \in DOMAIN H :
              (H[n].op = "delete" /\ Committed(H[n])) =>
                 H[n].status =
                    IF ValueAfter(H, n - 1, H[n].project, H[n].key) = {}
                    THEN "NOT_FOUND" ELSE "NO_CONTENT"
        /\ \A n \in DOMAIN H :
              (H[n].op = "store" /\ Committed(H[n])) =>
                 /\ H[n].status = "CREATED"
                 /\ H[n].value \in {{v} : v \in WholeValues}
        /\ \A p \in RaceProjects, k \in Keys :
              ValuesAt(entries, p, k) = ValueAfter(H, Len(H), p, k)

\* Two deletes of a present entry, one after the other with no store
\* committed between them: 204, then 404, and the entry is absent.
C20_Witness ==
    /\ Len(History) = 3
    /\ History[1].op = "store" /\ History[1].status = "CREATED"
    /\ History[2].op = "delete" /\ History[2].status = "NO_CONTENT"
    /\ History[3].op = "delete" /\ History[3].status = "NOT_FOUND"
    /\ entries = {}

\* A delete between the two statements of a store of the same key: the
\* project is registered, there is no entry yet, and the delete returns 404.
C20_WitnessStore ==
    /\ response.op = "delete"
    /\ response.resp.status = "NOT_FOUND"
    /\ response.stmt.registered
    /\ \E h \in Handlers :
          /\ ~Idle(h)
          /\ inflight[h].project = response.project
          /\ inflight[h].key = response.key

====
